---- MODULE Spec2Model ----
(***************************************************************************)
(* State-machine model of the multi-source search engine of                *)
(* last30days-skill:                                                       *)
(*   - scripts/lib/mcp_client.py  : MCPSearXNGClient, the JSON-RPC client  *)
(*     speaking line-delimited envelopes over a subprocess's pipes or the  *)
(*     ambient stdin/stdout;                                               *)
(*   - scripts/lib/hybrid_search.py : search_all_hybrid, the three-way     *)
(*     fan-out over a ThreadPoolExecutor.                                  *)
(* The two machines have disjoint variables; Spec runs the client,         *)
(* HybridSpec runs the orchestrator.                                       *)
(***************************************************************************)
EXTENDS Integers, Sequences, FiniteSets, TLC

(***************************************************************************)
(* Bounds of the model.                                                    *)
(***************************************************************************)
\* number of call_tool invocations on the one client instance
MaxCalls == 2
\* largest value of the constructor's timeout parameter, in clock ticks
MaxTimeout == 1
\* the clock of one call is observed up to one tick past the largest timeout
MaxElapsed == MaxTimeout + 1
\* number of unparseable physical lines kept in response_lines
\* datetime.now() is at midnight (0) or up to MaxTod steps into the day
MaxTod == 1

MaxBuf == 2

(***************************************************************************)
(* JSON-RPC envelopes.  An envelope is a record whose DOMAIN is the set of *)
(* keys of the JSON object, so that Python's  "k" in response  is          *)
(* "k" \in DOMAIN response.                                                *)
(***************************************************************************)
Base == [jsonrpc |-> "2.0"]

\* values of a 'result' member
Results == {"r1", "r2"}

\* values of an 'error' member: a full error object, and one that carries
\* neither 'message' nor 'code'
ErrorMembers ==
    { [message |-> "Method not found", code |-> "-32601"],
      [data |-> "d"] }

\* ids found on inbound envelopes; 0 stands for "no 'id' member"
EnvIds == 0..MaxCalls

Envelope(m, r, e, i) ==
    (IF m THEN [method |-> "notifications/progress"] ELSE Base) @@
    (IF r \in Results THEN [result |-> r] ELSE Base) @@
    (IF e \in ErrorMembers THEN [error |-> e] ELSE Base) @@
    (IF i # 0 THEN [id |-> i] ELSE Base) @@
    Base

Envelopes ==
    { Envelope(m, r, e, i) :
        m \in BOOLEAN,
        r \in Results \cup {"Absent"},
        e \in ErrorMembers \cup {Base},
        i \in EnvIds }

\* envelopes that the counterpart may pretty-print over two physical lines
SplitEnvelopes ==
    { Envelope(TRUE, "Absent", Base, 0),
      Envelope(FALSE, "r1", Base, 1),
      Envelope(FALSE, "Absent", Base, 1) }

(***************************************************************************)
(* Physical lines of the inbound stream, as readline() returns them (EOF   *)
(* is not a line: it is the state of the stream).                          *)
(*   blank   : only whitespace; line.strip() is empty                      *)
(*   json    : one complete JSON object                                    *)
(*   scalar  : one complete JSON value that is a number, true, false, null *)
(*   part    : the head or the tail of an object split over two lines;     *)
(*             json.loads fails on it alone                                *)
(* A part that does not continue the buffer (a tail without its head, a    *)
(* second head) is the model's text that never becomes JSON.               *)
(***************************************************************************)
Lines ==
    { [kind |-> "blank"], [kind |-> "scalar"] } \cup
    { [kind |-> "json", env |-> e] : e \in Envelopes } \cup
    { [kind |-> "part", env |-> e, half |-> h] :
        e \in SplitEnvelopes, h \in {"head", "tail"} }

\* json.loads(line) succeeds
ParsesAlone(line) == line.kind \in {"json", "scalar"}

\* json.loads("\n".join(response_lines)) succeeds: the buffer is exactly the
\* head and the tail of one object
JoinParses(buf) ==
    /\ Len(buf) = 2
    /\ buf[1].kind = "part" /\ buf[2].kind = "part"
    /\ buf[1].env = buf[2].env
    /\ buf[1].half = "head" /\ buf[2].half = "tail"

JoinValue(buf) == buf[1].env

\* variant: an envelope with 'method' is skipped only if it has no 'error' either
IsNotification_NotWithError(response) ==
    /\ "method" \in DOMAIN response
    /\ "result" \notin DOMAIN response
    /\ "error" \notin DOMAIN response

\* line 148 and line 172
IsNotification(response) ==
    "method" \in DOMAIN response /\ "result" \notin DOMAIN response

\* variant: an answer must carry an 'id'
IsAnswer_NeedsId(response) ==
    /\ "result" \in DOMAIN response \/ "error" \in DOMAIN response
    /\ "id" \in DOMAIN response

\* line 154 and line 176
IsAnswer(response) ==
    "result" \in DOMAIN response \/ "error" \in DOMAIN response

(***************************************************************************)
(* Outcomes of call_tool.                                                  *)
(***************************************************************************)
NoOutcome == [kind |-> "none"]
Returned(v) == [kind |-> "return", value |-> v]
Raised(e) == [kind |-> "raise", error |-> e]
ProcessExited(text) == [kind |-> "raise", error |-> "ProcessExited", stderr |-> text]
MCPError(msg, code) == [kind |-> "raise", error |-> "MCPError", message |-> msg, code |-> code]

NoResponse == [kind |-> "none"]

\* error.get('message', 'Unknown error'), error.get('code', 'Unknown')
ErrMessage(error) ==
    IF "message" \in DOMAIN error THEN error.message ELSE "Unknown error"
ErrCode(error) ==
    IF "code" \in DOMAIN error THEN error.code ELSE "Unknown"

\* variant: 'result' is looked at before 'error'
Finish_ResultFirst(response) ==
    IF "result" \in DOMAIN response
    THEN Returned(response.result)
    ELSE IF "error" \in DOMAIN response
         THEN MCPError(ErrMessage(response.error), ErrCode(response.error))
         ELSE Raised("InvalidResponse")

\* lines 181-190: what _send_request does with the envelope it left the loop with
Finish(response) ==
    IF "error" \in DOMAIN response
    THEN MCPError(ErrMessage(response.error), ErrCode(response.error))
    ELSE IF "result" \notin DOMAIN response
         THEN Raised("InvalidResponse")
         ELSE Returned(response.result)

\* variant: the subprocess is not polled
EofOutcome_NoPoll(proc, state, text) ==
    IF proc = "Popen"
    THEN ProcessExited(text)
    ELSE Raised("UnexpectedEOF")

\* lines 131-135
EofOutcome(proc, state, text) ==
    IF proc = "Popen" /\ state = "exited"
    THEN ProcessExited(text)
    ELSE Raised("UnexpectedEOF")

\* line 119
TimedOut(t, limit) == t > limit

\* variant: the timeout tears the connection down
AfterTimeout_Terminates(handle) == << "None", TRUE, TRUE >>

\* line 120: the raise is all the timeout does; handle is
\* <<self.process, stdin closed, kill sent>>
AfterTimeout(handle) == handle

\* variant: the counter is not advanced after the first id
GenerateRequestId_Reuses(rid) == IF rid = 0 THEN 1 ELSE rid

\* lines 70-73
GenerateRequestId(rid) == rid + 1

\* line 271: closing the pipe to a subprocess that has exited may fail
StdinCloseErrors(state) ==
    IF state = "exited" THEN {"none", "BrokenPipeError"} ELSE {"none"}

\* variant: the error of the cleanup is let through
Swallow_Propagates(exc) == exc

\* lines 272-273: except Exception: pass
Swallow(exc) == "none"

\* line 277: process.wait(timeout=5) returns when the subprocess has exited
\* and raises TimeoutExpired when the grace period ends before that
WaitOutcome(state) ==
    IF state = "exited" THEN "exited" ELSE "TimeoutExpired"

\* variant: the kill is sent whatever the wait gave
Kills_Always(waited) == TRUE

\* lines 278-280: the kill belongs to the except of TimeoutExpired
Kills(waited) == waited = "TimeoutExpired"

StderrTexts == {"", "boom"}

(***************************************************************************)
(* State of one MCPSearXNGClient and of its counterpart.                   *)
(***************************************************************************)
VARIABLES
    timeout,         \* self.timeout
    request_id,      \* self.request_id
    process,         \* self.process: "Popen" or "None"
    proc_state,      \* the spawned subprocess: "none", "running", "exited"
    proc_stderr,     \* what the subprocess wrote to its stderr
    stdin_closed,    \* the client closed the subprocess's stdin
    killed,          \* the client sent the subprocess a kill
    proc_eof,        \* the subprocess's stdout is closed and drained
    ambient_eof,     \* sys.stdin is closed and drained
    pc,              \* "ready", "check" (line 119), "read" (line 125), "close_wait"
    elapsed,         \* time.time() - start_time
    response_lines,  \* the local of that name
    response,        \* the local of that name: what this iteration parsed
    answer,          \* the envelope the loop was left with by break
    outcome,         \* how the most recent call_tool ended
    sent,            \* history: ids of the request envelopes built so far
    seen,            \* history: summary of the lines this call has read
    at_call,         \* history: <<process, stdin_closed, killed>> at the call's start
    close_status,    \* history: how the most recent close() went: "none",
                     \* "closing", "closed", "noop" (no handle), "raised"
    stream           \* history: how far the lines this call has read match
                     \* "complete non-answer envelopes, then a split response"

clientVars ==
    << timeout, request_id, process, proc_state, proc_stderr, stdin_closed,
       killed, proc_eof, ambient_eof, pc, elapsed, response_lines, response,
       answer, outcome, sent, seen, at_call, close_status,
       stream >>

(***************************************************************************)
(* State of one search_all_hybrid call.                                    *)
(***************************************************************************)
VARIABLES
    use_claude_mcp,  \* config["USE_CLAUDE_MCP"]
    claude_env,      \* what is_claude_environment() reads from os.environ
    mcp_importable,  \* whether "from . import mcp_client" succeeds
    opc,             \* the orchestrating thread: "submit", "collect", "shutdown", "returned"
    submitted,       \* number of executor.submit calls made (lines 217-225)
    collected,       \* number of iterations of the loop of line 228 completed
    futures,         \* the Future of each submitted category
    results,         \* the dict of that name
    how              \* history: how future.result ended for each category

hybridVars ==
    << use_claude_mcp, claude_env, mcp_importable, opc, submitted, collected,
       futures, results, how >>

(***************************************************************************)
(* Arguments and result of one call of a function of claude_mcp.py,        *)
(* hybrid_search.py, env.py, bird_x.py or date_detect.py.                  *)
(***************************************************************************)
VARIABLES
    config,          \* the config dict: the three API keys
    bird,            \* the Bird CLI: whether it is on PATH, what "bird whoami" does
    ask,             \* arguments of validate_sources
    now,             \* datetime.now(): day and time of day
    probe,           \* arguments of is_date_in_range
    raw,             \* the response a provider gave to one search
    ret              \* the function called and the value it returned

pureVars == << config, bird, ask, now, probe, raw, ret >>

vars == << clientVars, hybridVars, pureVars >>

ClientInit ==
    /\ timeout \in 1..MaxTimeout
    /\ request_id = 0
    /\ process \in {"Popen", "None"}
    /\ proc_state = IF process = "Popen" THEN "running" ELSE "none"
    /\ proc_stderr = ""
    /\ stdin_closed = FALSE
    /\ killed = FALSE
    /\ proc_eof = FALSE
    /\ ambient_eof = FALSE
    /\ pc = "ready"
    /\ elapsed = 0
    /\ response_lines = << >>
    /\ response = NoResponse
    /\ answer = NoResponse
    /\ outcome = NoOutcome
    /\ sent = << >>
    /\ seen = "none"
    /\ at_call = << process, FALSE, FALSE >>
    /\ close_status = "none"
    /\ stream = [st |-> "pre"]

(***************************************************************************)
(* One iteration of the read loop on a line that readline() returned       *)
(* (lines 137-179).  The value says how the iteration ends ("continue",    *)
(* "break", or "raise" for the TypeError of  "method" in <number>) and     *)
(* what it leaves in response_lines and response.                          *)
(***************************************************************************)
Classify(resp, buf, cleared) ==
    IF IsNotification(resp)
    THEN [ctl |-> "continue", buf |-> cleared, resp |-> resp]
    ELSE IF IsAnswer(resp)
         THEN [ctl |-> "break", buf |-> buf, resp |-> resp]
         ELSE [ctl |-> "continue", buf |-> buf, resp |-> resp]

LineStep(line, buf, resp) ==
    IF line.kind = "blank"
    THEN [ctl |-> "continue", buf |-> buf, resp |-> resp]
    ELSE IF line.kind = "scalar"
    THEN [ctl |-> "raise", buf |-> buf, resp |-> [kind |-> "scalar"]]
    ELSE IF line.kind = "json"
    THEN \* lines 142-159: the single-line path never touches response_lines
         Classify(line.env, buf, buf)
    ELSE \* lines 161-179: append, then try the joined buffer
         LET joined == Append(buf, line) IN
         IF JoinParses(joined)
         THEN Classify(JoinValue(joined), joined, << >>)
         ELSE [ctl |-> "continue", buf |-> joined, resp |-> resp]

\* the stream the client reads: process.stdout if it holds a process, else sys.stdin
InEOF == IF process = "Popen" THEN proc_eof ELSE ambient_eof

\* history: "none" while the call has read nothing; "notifs" when the lines
\* read so far are notification envelopes only; "response" for one envelope
\* carrying 'result' as the first line, "notifs_response" for such an envelope
\* after one or more notifications; "eof" when readline() returned
\* end-of-file; "other" for every other sequence of lines.  Written out on
\* the keys, so that the summary does not depend on how the client classifies
SeenNext(s, line) ==
    IF s \in {"none", "notifs"} /\ line.kind = "json"
    THEN IF "method" \in DOMAIN line.env /\ "result" \notin DOMAIN line.env
         THEN "notifs"
         ELSE IF "result" \in DOMAIN line.env
              THEN IF s = "none" THEN "response" ELSE "notifs_response"
              ELSE "other"
    ELSE "other"

\* history: [st |-> "pre"] while the lines read so far are complete
\* non-answer envelopes only (a notification, or an envelope with none of
\* 'method', 'result', 'error'; on one line or split head then tail);
\* "head" after the head of a split envelope that follows those;
\* "split_response" when the tail of a split envelope carrying 'result' has
\* just been read; "other" for every other sequence of lines.  Written out
\* on the keys
StreamNext(s, line) ==
    LET nonAnswer(e) == /\ "result" \notin DOMAIN e
                        /\ "error" \notin DOMAIN e
        isResponse(e) == /\ "result" \in DOMAIN e
                         /\ "method" \notin DOMAIN e
                         /\ "error" \notin DOMAIN e
    IN
    IF s.st = "pre" /\ line.kind = "json" /\ nonAnswer(line.env)
    THEN [st |-> "pre"]
    ELSE IF s.st = "pre" /\ line.kind = "part" /\ line.half = "head"
    THEN [st |-> "head", env |-> line.env]
    ELSE IF /\ s.st = "head" /\ line.kind = "part" /\ line.half = "tail"
            /\ line.env = s.env
    THEN IF isResponse(line.env) THEN [st |-> "split_response", env |-> line.env]
         ELSE IF nonAnswer(line.env) THEN [st |-> "pre"]
         ELSE [st |-> "other"]
    ELSE [st |-> "other"]

\* response_lines is kept up to MaxBuf lines: a buffer that has not parsed
\* at two lines, or that has parsed and was not cleared, never parses again
\* whatever is appended, so the lines beyond are not needed
Kept(buf) == IF Len(buf) > MaxBuf THEN SubSeq(buf, 1, MaxBuf) ELSE buf

(***************************************************************************)
(* call_tool -> _send_request, lines 88-115: build the envelope with a     *)
(* fresh id, write it, start the clock.  Writing to the pipe of a          *)
(* subprocess that has exited raises BrokenPipeError (line 106).           *)
(***************************************************************************)
CallTool ==
    /\ pc = "ready"
    /\ request_id < MaxCalls
    /\ request_id' = GenerateRequestId(request_id)
    /\ sent' = Append(sent, request_id')
    /\ at_call' = << process, stdin_closed, killed >>
    /\ response' = NoResponse
    /\ answer' = NoResponse
    /\ seen' = "none"
    /\ stream' = [st |-> "pre"]
    /\ response_lines' = << >>
    /\ elapsed' = 0
    /\ IF process = "Popen" /\ proc_state = "exited"
       THEN /\ outcome' = Raised("SendFailed")
            /\ pc' = "ready"
       ELSE /\ outcome' = NoOutcome
            /\ pc' = "check"
    /\ UNCHANGED << timeout, process, proc_state, proc_stderr, stdin_closed,
                    killed, proc_eof, ambient_eof, close_status >>
    /\ UNCHANGED hybridVars
    /\ UNCHANGED pureVars

\* lines 117-120: the timeout is looked at only at the top of the loop
LoopCheck ==
    /\ pc = "check"
    /\ IF TimedOut(elapsed, timeout)
       THEN /\ outcome' = Raised("Timeout")
            /\ pc' = "ready"
            /\ response_lines' = << >>
            /\ LET handle == AfterTimeout(<< process, stdin_closed, killed >>) IN
               /\ process' = handle[1]
               /\ stdin_closed' = handle[2]
               /\ killed' = handle[3]
       ELSE /\ pc' = "read"
            /\ UNCHANGED << outcome, response_lines, process, stdin_closed,
                            killed >>
    /\ response' = NoResponse
    /\ UNCHANGED << timeout, request_id, proc_state, proc_stderr,
                    proc_eof, ambient_eof, elapsed,
                    answer, sent, seen, at_call,
                    close_status, stream >>
    /\ UNCHANGED hybridVars
    /\ UNCHANGED pureVars

\* lines 122-135: readline() returns '' at end-of-file
ReadEOF ==
    /\ pc = "read"
    /\ InEOF
    /\ outcome' = EofOutcome(process, proc_state, proc_stderr)
    /\ pc' = "ready"
    /\ seen' = "eof"
    /\ stream' = [st |-> "other"]
    /\ response_lines' = << >>
    /\ UNCHANGED << timeout, request_id, process, proc_state, proc_stderr,
                    stdin_closed, killed, proc_eof, ambient_eof, elapsed,
                    response, answer, sent, at_call,
                    close_status >>
    /\ UNCHANGED hybridVars
    /\ UNCHANGED pureVars

\* lines 122-190: readline() blocks until the counterpart has written a line;
\* the iteration on that line either goes back to the top of the loop or
\* ends the call
ReadLine(line) ==
    /\ pc = "read"
    /\ ~InEOF
    /\ seen' = SeenNext(seen, line)
    /\ stream' = StreamNext(stream, line)
    /\ LET s == LineStep(line, response_lines, response) IN
       /\ response' = s.resp
       /\ IF s.ctl = "continue"
          THEN /\ pc' = "check"
               /\ response_lines' = Kept(s.buf)
               /\ UNCHANGED << outcome, answer >>
          ELSE /\ pc' = "ready"
               /\ response_lines' = << >>
               /\ IF s.ctl = "break"
                  THEN /\ answer' = s.resp
                       /\ outcome' = Finish(s.resp)
                  ELSE /\ outcome' = Raised("TypeError")
                       /\ UNCHANGED answer
    /\ UNCHANGED << timeout, request_id, process, proc_state, proc_stderr,
                    stdin_closed, killed, proc_eof, ambient_eof, elapsed,
                    sent, at_call,
                    close_status >>
    /\ UNCHANGED hybridVars
    /\ UNCHANGED pureVars

(***************************************************************************)
(* close(), lines 262-282: close stdin, wait up to the grace period, kill  *)
(* if the subprocess has not exited, drop the handle.                      *)
(***************************************************************************)
CloseBegin ==
    /\ pc = "ready"
    /\ outcome' = NoOutcome
    /\ seen' = "none"
    /\ stream' = [st |-> "pre"]
    /\ response' = NoResponse
    /\ answer' = NoResponse
    /\ IF process = "Popen"
       THEN \E exc \in StdinCloseErrors(proc_state) :
              /\ stdin_closed' = TRUE
              /\ IF Swallow(exc) = "none"
                 THEN /\ pc' = "close_wait"
                      /\ close_status' = "closing"
                 ELSE /\ pc' = "ready"
                      /\ close_status' = "raised"
       ELSE /\ close_status' = "noop"
            /\ UNCHANGED << stdin_closed, pc >>
    /\ UNCHANGED << timeout, request_id, process, proc_state, proc_stderr,
                    killed, proc_eof, ambient_eof, elapsed, response_lines,
                    sent, at_call >>
    /\ UNCHANGED hybridVars
    /\ UNCHANGED pureVars

CloseWait ==
    /\ pc = "close_wait"
    /\ killed' = (killed \/ Kills(WaitOutcome(proc_state)))
    /\ process' = "None"
    /\ pc' = "ready"
    /\ close_status' = "closed"
    /\ UNCHANGED << timeout, request_id, proc_state, proc_stderr, stdin_closed,
                    proc_eof, ambient_eof, elapsed, response_lines, response,
                    answer, outcome, sent, seen, at_call, stream >>
    /\ UNCHANGED hybridVars
    /\ UNCHANGED pureVars

(***************************************************************************)
(* The counterpart and the clock.                                          *)
(***************************************************************************)
ServerExit ==
    /\ proc_state = "running"
    /\ proc_state' = "exited"
    /\ \E text \in StderrTexts : proc_stderr' = text
    /\ UNCHANGED << timeout, request_id, process, stdin_closed, killed,
                    proc_eof, ambient_eof, pc, elapsed, response_lines,
                    response, answer, outcome, sent, seen, at_call,
                    close_status, stream >>
    /\ UNCHANGED hybridVars
    /\ UNCHANGED pureVars

StreamEOF ==
    /\ IF process = "Popen"
       THEN /\ ~proc_eof
            /\ proc_eof' = TRUE
            /\ UNCHANGED ambient_eof
       ELSE /\ ~ambient_eof
            /\ ambient_eof' = TRUE
            /\ UNCHANGED proc_eof
    /\ UNCHANGED << timeout, request_id, process, proc_state, proc_stderr,
                    stdin_closed, killed, pc, elapsed, response_lines,
                    response, answer, outcome, sent, seen, at_call,
                    close_status, stream >>
    /\ UNCHANGED hybridVars
    /\ UNCHANGED pureVars

Tick ==
    /\ pc \in {"check", "read"}
    /\ elapsed < MaxElapsed
    /\ elapsed' = elapsed + 1
    /\ UNCHANGED << timeout, request_id, process, proc_state, proc_stderr,
                    stdin_closed, killed, proc_eof, ambient_eof, pc,
                    response_lines, response, answer, outcome, sent, seen,
                    at_call,
                    close_status, stream >>
    /\ UNCHANGED hybridVars
    /\ UNCHANGED pureVars

(***************************************************************************)
(* scripts/lib/claude_mcp.py and the three search functions of             *)
(* scripts/lib/hybrid_search.py.                                           *)
(***************************************************************************)
Sources == {"reddit", "x", "web"}

\* insertion order of the futures dict (lines 216-226), which the loop of
\* line 228 follows
Order == << "reddit", "x", "web" >>

\* values of config["USE_CLAUDE_MCP"]; env.get_config defaults it to 'auto'
Prefs == {"true", "TRUE", "false", "False", "auto"}

\* str.lower() on those values
Lower(str) ==
    CASE str = "False" -> "false"
      [] str = "TRUE" -> "true"
      [] OTHER -> str

McpTools ==
    << "mcp__searxng-enhanced__search_web",
       "mcp__searxng-enhanced__get_website",
       "mcp__searxng-enhanced__get_current_datetime" >>

detect_mcp_tools(env) == IF env THEN McpTools ELSE << >>

\* variant: 'true' forces the protocol-backed source
should_use_claude_mcp_Forced(pref, env) ==
    IF Lower(pref) = "false" THEN FALSE
    ELSE IF Lower(pref) = "true" THEN TRUE
    ELSE env /\ Len(detect_mcp_tools(env)) > 0

should_use_claude_mcp(pref, env) ==
    IF Lower(pref) = "false" THEN FALSE
    ELSE IF Lower(pref) = "true" THEN env
    ELSE env /\ Len(detect_mcp_tools(env)) > 0

\* the import of line 188 comes first and may fail
get_mcp_client(pref, env, importable) ==
    IF ~importable THEN "ImportError"
    ELSE IF should_use_claude_mcp(pref, env)
         THEN "ClaudeMCPWrapper"
         ELSE "MCPSearXNGClient"

\* ClaudeMCPWrapper.is_available(): answers from the tools detected at
\* construction
is_available(client, env) ==
    IF client = "ClaudeMCPWrapper"
    THEN Len(detect_mcp_tools(env)) > 0
    ELSE FALSE

\* the try of the search functions: get_mcp_client may raise, and
\* MCPSearXNGClient has no is_available method (AttributeError)
TryProbe(pref, env, importable) ==
    LET client == get_mcp_client(pref, env, importable) IN
    IF client = "ClaudeMCPWrapper"
    THEN IF is_available(client, env) THEN "available" ELSE "unavailable"
    ELSE "raised"

Pair(items, source) == [items |-> items, source |-> source]

\* the three search functions: return inside the try when the probe
\* succeeds; the except only logs, and every other path reaches the last
\* line
search_reddit_hybrid(pref, env, importable) ==
    IF should_use_claude_mcp(pref, env)
       /\ TryProbe(pref, env, importable) = "available"
    THEN Pair(<< >>, "claude_mcp")
    ELSE Pair(<< >>, "none")

search_x_hybrid(pref, env, importable) ==
    IF should_use_claude_mcp(pref, env)
       /\ TryProbe(pref, env, importable) = "available"
    THEN Pair(<< >>, "claude_mcp")
    ELSE Pair(<< >>, "none")

search_web_hybrid(pref, env, importable) ==
    IF should_use_claude_mcp(pref, env)
       /\ TryProbe(pref, env, importable) = "available"
    THEN Pair(<< >>, "claude_mcp")
    ELSE Pair(<< >>, "none")

SearchFn(c, pref, env, importable) ==
    CASE c = "reddit" -> search_reddit_hybrid(pref, env, importable)
      [] c = "x" -> search_x_hybrid(pref, env, importable)
      [] c = "web" -> search_web_hybrid(pref, env, importable)

(***************************************************************************)
(* search_all_hybrid, lines 212-235.                                       *)
(***************************************************************************)
NotSubmitted == [state |-> "none"]
Running == [state |-> "running"]
Done(pair) == [state |-> "done", value |-> pair]
Failed == [state |-> "failed"]

\* line 233
ErrorPair == Pair(<< >>, "error")

\* results[source] = value
SetItem(dict, key, value) == (key :> value) @@ dict

\* variant: the value is stored in a mapping of its own
OnResult_Alone(dict, source, value) == (source :> value)

\* line 230, the future is done with a value
OnResult(dict, source, value) == SetItem(dict, source, value)

\* variant: the handler starts the mapping afresh
OnException_Wipes(dict, source) == (source :> ErrorPair)

\* variant: the handler only logs
OnException_Drops(dict, source) == dict

\* lines 231-233, future.result raised (the worker's exception or the
\* TimeoutError of the wait)
OnException(dict, source) == SetItem(dict, source, ErrorPair)

HybridInit ==
    /\ use_claude_mcp \in Prefs
    /\ claude_env \in BOOLEAN
    /\ mcp_importable \in BOOLEAN
    /\ opc = "submit"
    /\ submitted = 0
    /\ collected = 0
    /\ futures = [c \in Sources |-> NotSubmitted]
    /\ results = << >>
    /\ how = [c \in Sources |-> "none"]

\* lines 217-225: executor.submit hands the function to one of the three
\* worker threads, which starts on it at once
Submit ==
    /\ opc = "submit"
    /\ LET c == Order[submitted + 1] IN
       futures' = [futures EXCEPT ![c] = Running]
    /\ submitted' = submitted + 1
    /\ opc' = IF submitted' = Len(Order) THEN "collect" ELSE "submit"
    /\ UNCHANGED << use_claude_mcp, claude_env, mcp_importable, collected, results, how >>
    /\ UNCHANGED clientVars
    /\ UNCHANGED pureVars

\* a worker thread finishes its search function with a value
WorkerReturn(c) ==
    /\ futures[c] = Running
    /\ futures' = [futures EXCEPT ![c] = Done(SearchFn(c, use_claude_mcp, claude_env, mcp_importable))]
    /\ UNCHANGED << use_claude_mcp, claude_env, mcp_importable, opc, submitted, collected,
                    results, how >>
    /\ UNCHANGED clientVars
    /\ UNCHANGED pureVars

\* a worker thread's search function raises; the executor stores the
\* exception in the future
WorkerRaise(c) ==
    /\ futures[c] = Running
    /\ futures' = [futures EXCEPT ![c] = Failed]
    /\ UNCHANGED << use_claude_mcp, claude_env, mcp_importable, opc, submitted, collected,
                    results, how >>
    /\ UNCHANGED clientVars
    /\ UNCHANGED pureVars

Advance ==
    /\ collected' = collected + 1
    /\ opc' = IF collected' = Len(Order) THEN "shutdown" ELSE "collect"

\* line 230: the future is done, future.result returns its value
CollectResult ==
    /\ opc = "collect"
    /\ LET c == Order[collected + 1] IN
       /\ futures[c].state = "done"
       /\ results' = OnResult(results, c, futures[c].value)
       /\ how' = [how EXCEPT ![c] = "return"]
    /\ Advance
    /\ UNCHANGED << use_claude_mcp, claude_env, mcp_importable, submitted, futures >>
    /\ UNCHANGED clientVars
    /\ UNCHANGED pureVars

\* lines 230-233: the future is done with an exception, future.result raises it
CollectException ==
    /\ opc = "collect"
    /\ LET c == Order[collected + 1] IN
       /\ futures[c].state = "failed"
       /\ results' = OnException(results, c)
       /\ how' = [how EXCEPT ![c] = "exception"]
    /\ Advance
    /\ UNCHANGED << use_claude_mcp, claude_env, mcp_importable, submitted, futures >>
    /\ UNCHANGED clientVars
    /\ UNCHANGED pureVars

\* lines 230-233: the 30 seconds of future.result(timeout=30) pass while the
\* worker is still running; future.result raises TimeoutError
CollectTimeout ==
    /\ opc = "collect"
    /\ LET c == Order[collected + 1] IN
       /\ futures[c].state = "running"
       /\ results' = OnException(results, c)
       /\ how' = [how EXCEPT ![c] = "timeout"]
    /\ Advance
    /\ UNCHANGED << use_claude_mcp, claude_env, mcp_importable, submitted, futures >>
    /\ UNCHANGED clientVars
    /\ UNCHANGED pureVars

\* line 215, leaving the with block: ThreadPoolExecutor.__exit__ calls
\* shutdown(wait=True), which joins every worker thread; line 235 is reached
\* only after that
ShutdownReturn ==
    /\ opc = "shutdown"
    /\ \A c \in Sources : futures[c].state # "running"
    /\ opc' = "returned"
    /\ UNCHANGED << use_claude_mcp, claude_env, mcp_importable, submitted, collected, futures,
                    results, how >>
    /\ UNCHANGED clientVars
    /\ UNCHANGED pureVars

\* the hybrid machine at rest while the client runs, and conversely
HybridQuiet ==
    /\ use_claude_mcp = "auto"
    /\ claude_env = FALSE
    /\ mcp_importable = TRUE
    /\ opc = "submit"
    /\ submitted = 0
    /\ collected = 0
    /\ futures = [c \in Sources |-> NotSubmitted]
    /\ results = << >>
    /\ how = [c \in Sources |-> "none"]

ClientQuiet ==
    /\ ClientInit
    /\ timeout = 1
    /\ process = "None"

\* no function of the resolvers has been called
NoCall == [fn |-> "none"]

PureQuiet ==
    /\ config = [OPENAI_API_KEY |-> "None", OPENROUTER_API_KEY |-> "None",
                 XAI_API_KEY |-> "None"]
    /\ bird = [installed |-> FALSE, whoami |-> [exc |-> "FileNotFoundError"],
               npm |-> FALSE]
    /\ ask = [requested |-> "auto", available |-> "web", include_web |-> FALSE]
    /\ now = [day |-> 1, tod |-> 0]
    /\ probe = [date_str |-> "none", from_date |-> "none", to_date |-> "none"]
    /\ raw = [results |-> << >>]
    /\ ret = NoCall

Init == ClientInit /\ HybridQuiet /\ PureQuiet

Next ==
    \/ CallTool
    \/ LoopCheck
    \/ ReadEOF
    \/ \E line \in Lines : ReadLine(line)
    \/ CloseBegin
    \/ CloseWait
    \/ ServerExit
    \/ StreamEOF
    \/ Tick

Spec == Init /\ [][Next]_vars

\* the client's own steps are taken when they can be, and time passes; nothing
\* obliges the counterpart to write, to close its stream or to exit
FairSpec ==
    /\ Spec
    /\ WF_vars(LoopCheck)
    /\ WF_vars(CloseWait)
    /\ WF_vars(Tick)

HybridInitAll == ClientQuiet /\ HybridInit /\ PureQuiet

HybridNext ==
    \/ Submit
    \/ \E c \in Sources : WorkerReturn(c)
    \/ \E c \in Sources : WorkerRaise(c)
    \/ CollectResult
    \/ CollectException
    \/ CollectTimeout
    \/ ShutdownReturn

HybridSpec == HybridInitAll /\ [][HybridNext]_vars

\* the orchestrating thread takes its steps, and the wait of line 230 ends
\* when its 30 seconds are over; nothing obliges a worker to finish
HybridFairSpec ==
    /\ HybridSpec
    /\ WF_vars(Submit)
    /\ WF_vars(CollectResult)
    /\ WF_vars(CollectException)
    /\ WF_vars(CollectTimeout)
    /\ WF_vars(ShutdownReturn)

(***************************************************************************)
(* scripts/lib/bird_x.py: the Bird CLI.  bird.installed is what             *)
(* shutil.which("bird") finds; bird.whoami is what running "bird whoami"   *)
(* does: an exception of subprocess.run, or a return code and an output.   *)
(***************************************************************************)
Stdouts == {"", "\n", "alice\n"}

WhoamiRuns ==
    { [exc |-> "TimeoutExpired"] }
      \cup { [exc |-> "none", returncode |-> rc, stdout |-> out] :
               rc \in {0, 1}, out \in Stdouts }

BirdStates ==
    { [installed |-> FALSE, whoami |-> [exc |-> "FileNotFoundError"],
       npm |-> n] : n \in BOOLEAN }
      \cup { [installed |-> TRUE, whoami |-> w, npm |-> n] :
               w \in WhoamiRuns, n \in BOOLEAN }

\* str.strip() on those outputs
Strip(out) ==
    CASE out = "\n" -> ""
      [] out = "alice\n" -> "alice"
      [] OTHER -> out

\* .split('\n')[0] on a stripped output
FirstLine(text) == text

is_bird_installed(b) == b.installed

\* the username, or "None"
is_bird_authenticated(b) ==
    IF ~is_bird_installed(b) THEN "None"
    ELSE IF b.whoami.exc # "none" THEN "None"
    ELSE IF b.whoami.returncode = 0 /\ Strip(b.whoami.stdout) # ""
         THEN FirstLine(Strip(b.whoami.stdout))
         ELSE "None"

check_npm_available(b) == b.npm

get_bird_status(b) ==
    LET installed == is_bird_installed(b)
        username == IF installed THEN is_bird_authenticated(b) ELSE "None"
    IN [installed |-> installed,
        authenticated |-> username # "None",
        username |-> username,
        can_install |-> check_npm_available(b)]

(***************************************************************************)
(* scripts/lib/env.py: what the configured keys make available.            *)
(***************************************************************************)
\* a key of the config dict: None, or the non-empty string get_config read
KeyValues == {"None", "sk"}

Configs ==
    [OPENAI_API_KEY : KeyValues, OPENROUTER_API_KEY : KeyValues,
     XAI_API_KEY : KeyValues]

\* bool() of such a value, and of a username
Truthy(v) == v # "None" /\ v # ""

get_available_sources(cfg) ==
    LET has_openai == Truthy(cfg.OPENAI_API_KEY)
        has_openrouter == Truthy(cfg.OPENROUTER_API_KEY)
        has_xai == Truthy(cfg.XAI_API_KEY)
        has_reddit == has_openrouter \/ has_openai
    IN IF has_reddit /\ has_xai THEN "both"
       ELSE IF has_reddit THEN "reddit"
       ELSE IF has_xai THEN "x"
       ELSE "web"

get_missing_keys(cfg, b) ==
    LET has_openai == Truthy(cfg.OPENAI_API_KEY)
        has_openrouter == Truthy(cfg.OPENROUTER_API_KEY)
        has_xai == Truthy(cfg.XAI_API_KEY)
        has_bird == is_bird_installed(b) /\ Truthy(is_bird_authenticated(b))
        has_x == has_xai \/ has_bird
        has_reddit == has_openrouter \/ has_openai
    IN IF has_reddit /\ has_x THEN "none"
       ELSE IF has_reddit THEN "x"
       ELSE IF has_x THEN "reddit"
       ELSE "both"

\* values of the arguments of validate_sources
Requests == {"auto", "reddit", "x", "both", "all", "web"}
Availables == {"both", "reddit", "x", "web"}

\* the categories an effective-sources value stands for
Categories(effective) ==
    CASE effective = "all" -> {"reddit", "x", "web"}
      [] effective = "both" -> {"reddit", "x"}
      [] effective = "reddit" -> {"reddit"}
      [] effective = "reddit-web" -> {"reddit", "web"}
      [] effective = "x" -> {"x"}
      [] effective = "x-web" -> {"x", "web"}
      [] effective = "web" -> {"web"}
      [] OTHER -> {}

\* lines 141-147
ValidateWebOnly(requested) ==
    IF requested = "auto" THEN << "web", "None" >>
    ELSE IF requested = "web" THEN << "web", "None" >>
    ELSE << "web", "No API keys configured. Using WebSearch fallback." >>

\* lines 149-158
ValidateAuto(available, include_web) ==
    IF include_web /\ available = "both" THEN << "all", "None" >>
    ELSE IF include_web /\ available = "reddit" THEN << "reddit-web", "None" >>
    ELSE IF include_web /\ available = "x" THEN << "x-web", "None" >>
    ELSE << available, "None" >>

\* lines 163-169
ValidateBoth(available, include_web) ==
    IF available # "both"
    THEN IF available = "reddit"
         THEN << "none", "Requested both sources but xAI key is missing." >>
         ELSE << "none", "Requested both sources but OpenAI key is missing." >>
    ELSE IF include_web THEN << "all", "None" >>
    ELSE << "both", "None" >>

\* variant: the other source is used without a word
ValidateReddit_Silent(available, include_web) ==
    IF available = "x" THEN << "none", "None" >>
    ELSE IF include_web THEN << "reddit-web", "None" >>
    ELSE << "reddit", "None" >>

\* lines 171-176
ValidateReddit(available, include_web) ==
    IF available = "x"
    THEN << "none", "Requested Reddit but only xAI key is available." >>
    ELSE IF include_web THEN << "reddit-web", "None" >>
    ELSE << "reddit", "None" >>

\* lines 178-183
ValidateX(available, include_web) ==
    IF available = "reddit"
    THEN << "none", "Requested X but only OpenAI key is available." >>
    ELSE IF include_web THEN << "x-web", "None" >>
    ELSE << "x", "None" >>

\* the pair (effective_sources, error_message)
validate_sources(requested, available, include_web) ==
    IF available = "web" THEN ValidateWebOnly(requested)
    ELSE IF requested = "auto" THEN ValidateAuto(available, include_web)
    ELSE IF requested = "web" THEN << "web", "None" >>
    ELSE IF requested = "both" THEN ValidateBoth(available, include_web)
    ELSE IF requested = "reddit" THEN ValidateReddit(available, include_web)
    ELSE IF requested = "x" THEN ValidateX(available, include_web)
    ELSE << requested, "None" >>

\* variant: the paid API is preferred
get_x_source_XaiFirst(cfg, b) ==
    IF Truthy(cfg.XAI_API_KEY) THEN "xai"
    ELSE IF is_bird_installed(b) /\ Truthy(is_bird_authenticated(b)) THEN "bird"
    ELSE "None"

get_x_source(cfg, b) ==
    IF is_bird_installed(b) /\ Truthy(is_bird_authenticated(b)) THEN "bird"
    ELSE IF Truthy(cfg.XAI_API_KEY) THEN "xai"
    ELSE "None"

get_x_source_status(cfg, b) ==
    LET bird_status == get_bird_status(b)
        xai_available == Truthy(cfg.XAI_API_KEY)
    IN [source |-> IF bird_status.authenticated THEN "bird"
                   ELSE IF xai_available THEN "xai"
                   ELSE "None",
        bird_installed |-> bird_status.installed,
        bird_authenticated |-> bird_status.authenticated,
        bird_username |-> bird_status.username,
        xai_available |-> xai_available,
        can_install_bird |-> bird_status.can_install]

\* variant: the older provider is preferred
get_reddit_provider_OpenAIFirst(cfg) ==
    IF Truthy(cfg.OPENAI_API_KEY) THEN "openai"
    ELSE IF Truthy(cfg.OPENROUTER_API_KEY) THEN "openrouter"
    ELSE "None"

get_reddit_provider(cfg) ==
    IF Truthy(cfg.OPENROUTER_API_KEY) THEN "openrouter"
    ELSE IF Truthy(cfg.OPENAI_API_KEY) THEN "openai"
    ELSE "None"

get_reddit_provider_status(cfg) ==
    LET has_openrouter == Truthy(cfg.OPENROUTER_API_KEY)
        has_openai == Truthy(cfg.OPENAI_API_KEY)
    IN [source |-> IF has_openrouter THEN "openrouter"
                   ELSE IF has_openai THEN "openai"
                   ELSE "None",
        openrouter_available |-> has_openrouter,
        openai_available |-> has_openai]

(***************************************************************************)
(* scripts/lib/date_detect.py.  A datetime is a day number and a time of   *)
(* day; datetime.strptime(s, '%Y-%m-%d') gives midnight of the day written  *)
(* in s, or raises ValueError.                                             *)
(***************************************************************************)
\* the strings strptime accepts, with the day each one names; the month and
\* the day of the month need not be zero-padded
DateTable ==
    { << "2026-01-29", 0 >>, << "2026-01-30", 1 >>, << "2026-01-31", 2 >>,
      << "2026-02-01", 3 >>, << "2026-2-1", 3 >>, << "2026-02-02", 4 >> }

IsoDates == { e[1] : e \in DateTable }
Days == { e[2] : e \in DateTable }

\* strings strptime rejects: no such day, another format, another case
BadDates == {"2026-02-30", "Jan 30, 2026", "Today"}

\* what extract_date_from_text and a caller may pass as date_str
DateStrs == IsoDates \cup BadDates \cup {"today", "yesterday", "none", "", "None"}

\* what a caller may pass as from_date and to_date
WindowStrs == (IsoDates \ {"2026-2-1"}) \cup {"2026-02-30"}

Parses(str) == str \in IsoDates

strptime(str) ==
    [day |-> (CHOOSE e \in DateTable : e[1] = str)[2], tod |-> 0]

\* datetime.now() - timedelta(days=1)
MinusOneDay(dt) == [day |-> dt.day - 1, tod |-> dt.tod]

\* a <= b on datetimes
Leq(a, b) == a.day < b.day \/ (a.day = b.day /\ a.tod <= b.tod)

\* variant: what cannot be parsed is left out
OnParseError_Excludes == FALSE

\* lines 158-160
OnParseError == TRUE

\* lines 144-150
Extracted(date_str, clock) ==
    IF date_str = "today" THEN clock
    ELSE IF date_str = "yesterday" THEN MinusOneDay(clock)
    ELSE strptime(date_str)

is_date_in_range(date_str, from_date, to_date, clock) ==
    IF date_str \in {"None", ""} \/ date_str = "none" THEN TRUE
    ELSE IF date_str \notin {"today", "yesterday"} /\ ~Parses(date_str)
         THEN OnParseError
    ELSE IF ~Parses(from_date) \/ ~Parses(to_date) THEN OnParseError
    ELSE /\ Leq(strptime(from_date), Extracted(date_str, clock))
         /\ Leq(Extracted(date_str, clock), strptime(to_date))

\* date.strftime('%Y-%m-%d'): the zero-padded string of a day
strftime(dt) ==
    (CHOOSE e \in DateTable : e[2] = dt.day /\ e[1] # "2026-2-1")[1]

\* datetime.now() - timedelta(days=n)
MinusDays(dt, n) == [day |-> dt.day - n, tod |-> dt.tod]

\* URLs, with what the regular expressions of extract_date_from_url
\* (date), of the searxng filters (reddit, excluded, x) and of
\* extract_subreddit_from_url, _extract_domain_from_url (domain) and
\* extract_author_from_x_url (author) find in each
UrlTable ==
    { [url |-> "", date |-> "None",
       reddit |-> FALSE, excluded |-> FALSE, subreddit |-> "", x |-> FALSE,
       domain |-> "", author |-> ""],
      [url |-> "https://example.com/post", date |-> "None",
       reddit |-> FALSE, excluded |-> FALSE, subreddit |-> "", x |-> FALSE,
       domain |-> "example.com", author |-> ""],
      [url |-> "https://example.com/2026/01/31/post", date |-> "2026-01-31",
       reddit |-> FALSE, excluded |-> FALSE, subreddit |-> "", x |-> FALSE,
       domain |-> "example.com", author |-> ""],
      [url |-> "https://www.reddit.com/r/python/comments/abc/", date |-> "None",
       reddit |-> TRUE, excluded |-> FALSE, subreddit |-> "python", x |-> FALSE,
       domain |-> "reddit.com", author |-> ""],
      [url |-> "https://www.reddit.com/r/python/20260130/", date |-> "2026-01-30",
       reddit |-> TRUE, excluded |-> FALSE, subreddit |-> "python", x |-> FALSE,
       domain |-> "reddit.com", author |-> ""],
      [url |-> "https://business.reddit.com/r/ads/", date |-> "None",
       reddit |-> TRUE, excluded |-> TRUE, subreddit |-> "ads", x |-> FALSE,
       domain |-> "business.reddit.com", author |-> ""],
      [url |-> "https://x.com/alice/status/1", date |-> "None",
       reddit |-> FALSE, excluded |-> FALSE, subreddit |-> "", x |-> TRUE,
       domain |-> "x.com", author |-> "alice"] }

UrlRow(url) == CHOOSE u \in UrlTable : u.url = url

\* texts, with what each regular expression of extract_date_from_text finds:
\* the word today, the word yesterday, the number of "N days ago" (-1: no
\* match), the date of "D Month YYYY", the date of YYYY-MM-DD or YYYY/MM/DD
TextTable ==
    { [text |-> "no date here", today |-> FALSE, yesterday |-> FALSE,
       days_ago |-> -1, long |-> "None", iso |-> "None"],
      [text |-> "posted today", today |-> TRUE, yesterday |-> FALSE,
       days_ago |-> -1, long |-> "None", iso |-> "None"],
      [text |-> "since yesterday", today |-> FALSE, yesterday |-> TRUE,
       days_ago |-> -1, long |-> "None", iso |-> "None"],
      [text |-> "1 days ago", today |-> FALSE, yesterday |-> FALSE,
       days_ago |-> 1, long |-> "None", iso |-> "None"],
      [text |-> "1 February 2026", today |-> FALSE, yesterday |-> FALSE,
       days_ago |-> -1, long |-> "2026-02-01", iso |-> "None"],
      [text |-> "on 2026/02/02", today |-> FALSE, yesterday |-> FALSE,
       days_ago |-> -1, long |-> "None", iso |-> "2026-02-02"] }

TextRow(text) == CHOOSE t \in TextTable : t.text = text

extract_date_from_url(url) == UrlRow(url).date

extract_date_from_text(text, clock) ==
    IF text = "" THEN "None"
    ELSE LET t == TextRow(text) IN
         IF t.today THEN "today"
         ELSE IF t.yesterday THEN "yesterday"
         ELSE IF t.days_ago >= 0 THEN strftime(MinusDays(clock, t.days_ago))
         ELSE IF t.long # "None" THEN t.long
         ELSE t.iso

\* variant: the snippet is looked at before the URL
extract_date_signals_SnippetFirst(url, snippet, title, clock) ==
    IF Truthy(extract_date_from_text(snippet, clock))
    THEN << extract_date_from_text(snippet, clock), "med" >>
    ELSE IF Truthy(extract_date_from_url(url))
    THEN << extract_date_from_url(url), "high" >>
    ELSE IF Truthy(extract_date_from_text(title, clock))
    THEN << extract_date_from_text(title, clock), "low" >>
    ELSE << "None", "none" >>

\* the pair (date_str, confidence)
extract_date_signals(url, snippet, title, clock) ==
    IF Truthy(extract_date_from_url(url))
    THEN << extract_date_from_url(url), "high" >>
    ELSE IF Truthy(extract_date_from_text(snippet, clock))
    THEN << extract_date_from_text(snippet, clock), "med" >>
    ELSE IF Truthy(extract_date_from_text(title, clock))
    THEN << extract_date_from_text(title, clock), "low" >>
    ELSE << "None", "none" >>

(***************************************************************************)
(* The adapters: scripts/lib/searxng.py, openai_reddit.py,                 *)
(* openrouter_reddit.py, and hybrid_search.apply_date_detection.  A dict   *)
(* is a record whose DOMAIN is its keys; a relevance or score is a number  *)
(* of hundredths.                                                          *)
(***************************************************************************)
\* dict.get(key, default)
Get(dict, key, default) == IF key \in DOMAIN dict THEN dict[key] ELSE default

\* a or b
PyOr(a, b) == IF Truthy(a) THEN a ELSE b

\* variant: the date the provider gave is stored without a confidence
SearxDate_Unrated(result, clock) ==
    LET api_date == PyOr(Get(result, "publication_date", "None"),
                         Get(result, "publish_date", "None"))
    IN IF Truthy(api_date)
       THEN << api_date, "none" >>
       ELSE extract_date_signals(Get(result, "url", ""),
                                 Get(result, "content", ""),
                                 Get(result, "title", ""), clock)

\* searxng.py lines 199-214 (282-297, 358-373): the date the provider gave,
\* if any, else the detected one
SearxDate(result, clock) ==
    LET api_date == PyOr(Get(result, "publication_date", "None"),
                         Get(result, "publish_date", "None"))
    IN IF Truthy(api_date)
       THEN << api_date, "high" >>
       ELSE extract_date_signals(Get(result, "url", ""),
                                 Get(result, "content", ""),
                                 Get(result, "title", ""), clock)

\* lines 217-218 (300-301, 376-377, and hybrid_search.py 182-183): the
\* condition of the continue
DateFilterSkips(date_str, from_date, to_date, clock) ==
    Truthy(date_str) /\ ~is_date_in_range(date_str, from_date, to_date, clock)

\* hash(url) differs from one interpreter to the next: the id of an item
\* keeps only the URL it was computed from
searxng_parse_reddit_response(resp, from_date, to_date, clock) ==
    LET keeps(result) ==
            LET u == UrlRow(Get(result, "url", "")) IN
            /\ u.reddit
            /\ ~u.excluded
            /\ u.subreddit # ""
            /\ ~DateFilterSkips(SearxDate(result, clock)[1],
                                from_date, to_date, clock)
        item(result) ==
            LET url == Get(result, "url", "") IN
            [id |-> [hash_of |-> url],
             title |-> Get(result, "title", ""),
             url |-> url,
             subreddit |-> UrlRow(url).subreddit,
             date |-> SearxDate(result, clock)[1],
             relevance |-> Get(result, "score", 0),
             why_relevant |-> Get(result, "content", ""),
             date_confidence |-> SearxDate(result, clock)[2]]
        kept == SelectSeq(Get(resp, "results", << >>), keeps)
    IN IF "error" \in DOMAIN resp THEN << >>
       ELSE [i \in 1..Len(kept) |-> item(kept[i])]

parse_x_response(resp, from_date, to_date, clock) ==
    LET keeps(result) ==
            /\ UrlRow(Get(result, "url", "")).x
            /\ ~DateFilterSkips(SearxDate(result, clock)[1],
                                from_date, to_date, clock)
        item(result) ==
            LET url == Get(result, "url", "") IN
            [id |-> [hash_of |-> url],
             text |-> PyOr(Get(result, "title", ""),
                           Get(result, "content", "")),
             url |-> url,
             author_handle |-> UrlRow(url).author,
             date |-> SearxDate(result, clock)[1],
             relevance |-> Get(result, "score", 0),
             date_confidence |-> SearxDate(result, clock)[2]]
        kept == SelectSeq(Get(resp, "results", << >>), keeps)
    IN IF "error" \in DOMAIN resp THEN << >>
       ELSE [i \in 1..Len(kept) |-> item(kept[i])]

parse_web_response(resp, from_date, to_date, clock) ==
    LET keeps(result) ==
            ~DateFilterSkips(SearxDate(result, clock)[1],
                             from_date, to_date, clock)
        item(result) ==
            LET url == Get(result, "url", "") IN
            [id |-> [hash_of |-> url],
             title |-> Get(result, "title", ""),
             url |-> url,
             source_domain |-> UrlRow(url).domain,
             snippet |-> Get(result, "content", ""),
             date |-> SearxDate(result, clock)[1],
             relevance |-> Get(result, "score", 0),
             date_confidence |-> SearxDate(result, clock)[2]]
        kept == SelectSeq(Get(resp, "results", << >>), keeps)
    IN IF "error" \in DOMAIN resp THEN << >>
       ELSE [i \in 1..Len(kept) |-> item(kept[i])]

\* strings that re.match(r'^\d{4}-\d{2}-\d{2}$', s) accepts: $ also matches
\* before a newline that ends the string
ShapeMatches ==
    (IsoDates \ {"2026-2-1"}) \cup {"2026-02-30", "2026-01-31\n"}

\* openai_reddit.py lines 162-189.  lstrip("r/") removes the leading
\* characters 'r' and '/'; the relevance is min(1.0, max(0.0, x)); a date
\* that is not of the shape is dropped
CleanItems(items) ==
    LET keeps(item) ==
            LET url == Get(item, "url", "") IN
            url # "" /\ UrlRow(url).reddit
        lstrip(str) ==
            CASE str = "r/python" -> "python"
              [] str = "rust" -> "ust"
              [] OTHER -> str
        clamp(x) == IF x < 0 THEN 0 ELSE IF x > 100 THEN 100 ELSE x
        valid(date) ==
            IF Truthy(date) /\ date \notin ShapeMatches THEN "None" ELSE date
        clean(i, item) ==
            [id |-> [prefix |-> "R", n |-> i],
             title |-> Get(item, "title", ""),
             url |-> Get(item, "url", ""),
             subreddit |-> lstrip(Get(item, "subreddit", "")),
             date |-> valid(Get(item, "date", "None")),
             why_relevant |-> Get(item, "why_relevant", ""),
             relevance |-> clamp(Get(item, "relevance", 50))]
        idx == SelectSeq([i \in 1..Len(items) |-> i],
                         LAMBDA i : keeps(items[i]))
    IN [k \in 1..Len(idx) |-> clean(idx[k], items[idx[k]])]

\* lines 120-160 find the "items" of the JSON object in the output text;
\* there are none when there is no output text or no such object
openai_parse_reddit_response(resp) ==
    IF "error" \in DOMAIN resp /\ Truthy(resp.error) THEN << >>
    ELSE CleanItems(Get(resp, "items", << >>))

openrouter_parse_reddit_response(resp) ==
    IF "error" \in DOMAIN resp /\ Truthy(resp.error) THEN << >>
    ELSE CleanItems(Get(resp, "items", << >>))

\* hybrid_search.py lines 166-170: what apply_date_detection reads of an item
DetectedOf(item, clock) ==
    extract_date_signals(
        Get(item, "url", ""),
        PyOr(PyOr(Get(item, "snippet", ""), Get(item, "content", "")),
             Get(item, "why_relevant", "")),
        Get(item, "title", ""), clock)

\* lines 178-179 set item["date"] and item["date_confidence"]
apply_date_detection(items, from_date, to_date, clock) ==
    LET keeps(item) ==
            ~DateFilterSkips(DetectedOf(item, clock)[1],
                             from_date, to_date, clock)
        dated(item) ==
            [k \in DOMAIN item \cup {"date", "date_confidence"} |->
                IF k = "date" THEN DetectedOf(item, clock)[1]
                ELSE IF k = "date_confidence" THEN DetectedOf(item, clock)[2]
                ELSE item[k]]
        kept == SelectSeq(items, keeps)
    IN [i \in 1..Len(kept) |-> dated(kept[i])]

(***************************************************************************)
(* The resolver functions called one at a time on arguments fixed at the   *)
(* start; ret holds the call made last and what it returned.               *)
(***************************************************************************)
Call(fn, value) == [fn |-> fn, value |-> value]

CallDetectMcpTools ==
    /\ ret' = Call("detect_mcp_tools", detect_mcp_tools(claude_env))
    /\ UNCHANGED << config, bird, ask, now, probe, raw >>
    /\ UNCHANGED hybridVars
    /\ UNCHANGED clientVars

CallShouldUseClaudeMcp ==
    /\ ret' = Call("should_use_claude_mcp",
                   should_use_claude_mcp(use_claude_mcp, claude_env))
    /\ UNCHANGED << config, bird, ask, now, probe, raw >>
    /\ UNCHANGED hybridVars
    /\ UNCHANGED clientVars

CallGetMcpClient ==
    /\ ret' = Call("get_mcp_client",
                   get_mcp_client(use_claude_mcp, claude_env, mcp_importable))
    /\ UNCHANGED << config, bird, ask, now, probe, raw >>
    /\ UNCHANGED hybridVars
    /\ UNCHANGED clientVars

CallSearchRedditHybrid ==
    /\ ret' = Call("search_reddit_hybrid",
                   search_reddit_hybrid(use_claude_mcp, claude_env, mcp_importable))
    /\ UNCHANGED << config, bird, ask, now, probe, raw >>
    /\ UNCHANGED hybridVars
    /\ UNCHANGED clientVars

CallSearchXHybrid ==
    /\ ret' = Call("search_x_hybrid",
                   search_x_hybrid(use_claude_mcp, claude_env, mcp_importable))
    /\ UNCHANGED << config, bird, ask, now, probe, raw >>
    /\ UNCHANGED hybridVars
    /\ UNCHANGED clientVars

CallSearchWebHybrid ==
    /\ ret' = Call("search_web_hybrid",
                   search_web_hybrid(use_claude_mcp, claude_env, mcp_importable))
    /\ UNCHANGED << config, bird, ask, now, probe, raw >>
    /\ UNCHANGED hybridVars
    /\ UNCHANGED clientVars

McpNext ==
    \/ CallDetectMcpTools
    \/ CallShouldUseClaudeMcp
    \/ CallGetMcpClient
    \/ CallSearchRedditHybrid
    \/ CallSearchXHybrid
    \/ CallSearchWebHybrid

McpSpec == HybridInitAll /\ [][McpNext]_vars

\* env.py and bird_x.py: every configuration, Bird state and request
ResolverInit ==
    /\ ClientQuiet
    /\ HybridQuiet
    /\ config \in Configs
    /\ bird \in BirdStates
    /\ ask \in [requested : Requests, available : Availables,
                 include_web : BOOLEAN]
    /\ now = [day |-> 1, tod |-> 0]
    /\ probe = [date_str |-> "none", from_date |-> "none", to_date |-> "none"]
    /\ raw = [results |-> << >>]
    /\ ret = NoCall

CallIsBirdInstalled ==
    /\ ret' = Call("is_bird_installed",
                   is_bird_installed(bird))
    /\ UNCHANGED << config, bird, ask, now, probe, raw >>
    /\ UNCHANGED hybridVars
    /\ UNCHANGED clientVars

CallIsBirdAuthenticated ==
    /\ ret' = Call("is_bird_authenticated",
                   is_bird_authenticated(bird))
    /\ UNCHANGED << config, bird, ask, now, probe, raw >>
    /\ UNCHANGED hybridVars
    /\ UNCHANGED clientVars

CallGetBirdStatus ==
    /\ ret' = Call("get_bird_status",
                   get_bird_status(bird))
    /\ UNCHANGED << config, bird, ask, now, probe, raw >>
    /\ UNCHANGED hybridVars
    /\ UNCHANGED clientVars

CallGetAvailableSources ==
    /\ ret' = Call("get_available_sources",
                   get_available_sources(config))
    /\ UNCHANGED << config, bird, ask, now, probe, raw >>
    /\ UNCHANGED hybridVars
    /\ UNCHANGED clientVars

CallGetMissingKeys ==
    /\ ret' = Call("get_missing_keys",
                   get_missing_keys(config, bird))
    /\ UNCHANGED << config, bird, ask, now, probe, raw >>
    /\ UNCHANGED hybridVars
    /\ UNCHANGED clientVars

CallValidateSources ==
    /\ ret' = Call("validate_sources",
                   validate_sources(ask.requested, ask.available,
                                    ask.include_web))
    /\ UNCHANGED << config, bird, ask, now, probe, raw >>
    /\ UNCHANGED hybridVars
    /\ UNCHANGED clientVars

CallGetXSource ==
    /\ ret' = Call("get_x_source",
                   get_x_source(config, bird))
    /\ UNCHANGED << config, bird, ask, now, probe, raw >>
    /\ UNCHANGED hybridVars
    /\ UNCHANGED clientVars

CallGetXSourceStatus ==
    /\ ret' = Call("get_x_source_status",
                   get_x_source_status(config, bird))
    /\ UNCHANGED << config, bird, ask, now, probe, raw >>
    /\ UNCHANGED hybridVars
    /\ UNCHANGED clientVars

CallGetRedditProvider ==
    /\ ret' = Call("get_reddit_provider",
                   get_reddit_provider(config))
    /\ UNCHANGED << config, bird, ask, now, probe, raw >>
    /\ UNCHANGED hybridVars
    /\ UNCHANGED clientVars

CallGetRedditProviderStatus ==
    /\ ret' = Call("get_reddit_provider_status",
                   get_reddit_provider_status(config))
    /\ UNCHANGED << config, bird, ask, now, probe, raw >>
    /\ UNCHANGED hybridVars
    /\ UNCHANGED clientVars

ResolverNext ==
    \/ CallIsBirdInstalled
    \/ CallIsBirdAuthenticated
    \/ CallGetBirdStatus
    \/ CallGetAvailableSources
    \/ CallGetMissingKeys
    \/ CallValidateSources
    \/ CallGetXSource
    \/ CallGetXSourceStatus
    \/ CallGetRedditProvider
    \/ CallGetRedditProviderStatus

ResolverSpec == ResolverInit /\ [][ResolverNext]_vars

\* date_detect.py: every clock reading, candidate and window
DateInit ==
    /\ ClientQuiet
    /\ HybridQuiet
    /\ config = [OPENAI_API_KEY |-> "None", OPENROUTER_API_KEY |-> "None",
                 XAI_API_KEY |-> "None"]
    /\ bird = [installed |-> FALSE, whoami |-> [exc |-> "FileNotFoundError"],
               npm |-> FALSE]
    /\ ask = [requested |-> "auto", available |-> "web", include_web |-> FALSE]
    /\ now \in [day : Days, tod : 0..MaxTod]
    /\ probe \in [date_str : DateStrs, from_date : WindowStrs,
                   to_date : WindowStrs]
    /\ raw = [results |-> << >>]
    /\ ret = NoCall

CallIsDateInRange ==
    /\ ret' = Call("is_date_in_range",
                   is_date_in_range(probe.date_str, probe.from_date,
                                    probe.to_date, now))
    /\ UNCHANGED << config, bird, ask, now, probe, raw >>
    /\ UNCHANGED hybridVars
    /\ UNCHANGED clientVars

DateNext == CallIsDateInRange

DateSpec == DateInit /\ [][DateNext]_vars

\* date_detect.py and the adapters: what a provider may answer, at every
\* clock reading and for several windows
Responses ==
    LET snippets == {"", "posted today", "1 days ago", "1 February 2026"}
        titles == {"", "since yesterday", "on 2026/02/02"}
        dates == {"2026-01-31", "Jan 30, 2026", "2026-01-31\n", ""}
        scores == {0 - 50, 250}
        searx ==
            { [url |-> u.url, content |-> c, title |-> t] :
                u \in UrlTable, c \in snippets, t \in titles }
            \cup
            { [url |-> u, content |-> "posted today", title |-> "",
               publication_date |-> d, score |-> sc] :
                u \in {"https://example.com/post",
                       "https://www.reddit.com/r/python/comments/abc/",
                       "https://x.com/alice/status/1"},
                d \in dates, sc \in scores }
            \cup
            { [url |-> "https://example.com/post",
               publish_date |-> "2026-02-02"],
              [url |-> "https://example.com/post",
               snippet |-> "1 February 2026"] }
        model ==
            { [url |-> u, title |-> "no date here", subreddit |-> "r/python",
               date |-> d, relevance |-> r, why_relevant |-> "posted today"] :
                u \in {"https://www.reddit.com/r/python/comments/abc/",
                       "https://example.com/post"},
                d \in dates, r \in scores \cup {50} }
            \cup
            { [url |-> "https://www.reddit.com/r/python/comments/abc/"],
              [title |-> "no date here"] }
        paired ==
            { [url |-> "https://www.reddit.com/r/python/20260130/",
               content |-> "", title |-> ""],
              [url |-> "https://example.com/post",
               content |-> "posted today", title |-> ""],
              [url |-> "https://x.com/alice/status/1", content |-> "",
               title |-> "on 2026/02/02"],
              [url |-> "https://example.com/post", content |-> "",
               title |-> ""] }
    IN
    { [results |-> << r >>] : r \in searx }
    \cup { [results |-> << a, b >>] : a \in paired, b \in paired }
    \cup { [items |-> << i >>] : i \in model }
    \cup { [items |-> << a, b >>] : a \in paired, b \in paired }
    \cup { [results |-> << >>], [error |-> "boom"] }

\* the clock is read on a day whose yesterday has a name in DateTable
ItemInit ==
    /\ ClientQuiet
    /\ HybridQuiet
    /\ config = [OPENAI_API_KEY |-> "None", OPENROUTER_API_KEY |-> "None",
                 XAI_API_KEY |-> "None"]
    /\ bird = [installed |-> FALSE, whoami |-> [exc |-> "FileNotFoundError"],
               npm |-> FALSE]
    /\ ask = [requested |-> "auto", available |-> "web", include_web |-> FALSE]
    /\ now \in [day : { d \in Days : d - 1 \in Days }, tod : 0..MaxTod]
    /\ probe \in [date_str : {"none"},
                   from_date : {"2026-01-30", "2026-02-01"},
                   to_date : {"2026-01-31", "2026-02-02"}]
    /\ raw \in Responses
    /\ ret = NoCall

\* the results or the items of the response
ListOf(resp) ==
    IF "results" \in DOMAIN resp THEN resp.results
    ELSE IF "items" \in DOMAIN resp THEN resp.items
    ELSE << >>

\* the first result of the response
First == ListOf(raw)[1]

CallExtractDateFromUrl ==
    /\ Len(ListOf(raw)) > 0
    /\ ret' = Call("extract_date_from_url",
                   extract_date_from_url(Get(First, "url", "")))
    /\ UNCHANGED << config, bird, ask, now, probe, raw >>
    /\ UNCHANGED hybridVars
    /\ UNCHANGED clientVars

CallExtractDateFromText(key) ==
    /\ Len(ListOf(raw)) > 0
    /\ ret' = [fn |-> "extract_date_from_text",
               text |-> Get(First, key, ""),
               value |-> extract_date_from_text(Get(First, key, ""), now)]
    /\ UNCHANGED << config, bird, ask, now, probe, raw >>
    /\ UNCHANGED hybridVars
    /\ UNCHANGED clientVars

CallExtractDateSignals ==
    /\ Len(ListOf(raw)) > 0
    /\ ret' = Call("extract_date_signals",
                   extract_date_signals(Get(First, "url", ""),
                                        Get(First, "content", ""),
                                        Get(First, "title", ""), now))
    /\ UNCHANGED << config, bird, ask, now, probe, raw >>
    /\ UNCHANGED hybridVars
    /\ UNCHANGED clientVars

CallApplyDateDetection ==
    /\ ret' = Call("apply_date_detection",
                   apply_date_detection(ListOf(raw), probe.from_date,
                                        probe.to_date, now))
    /\ UNCHANGED << config, bird, ask, now, probe, raw >>
    /\ UNCHANGED hybridVars
    /\ UNCHANGED clientVars

CallSearxngParseReddit ==
    /\ ret' = Call("searxng.parse_reddit_response",
                   searxng_parse_reddit_response(raw, probe.from_date,
                                                 probe.to_date, now))
    /\ UNCHANGED << config, bird, ask, now, probe, raw >>
    /\ UNCHANGED hybridVars
    /\ UNCHANGED clientVars

CallParseX ==
    /\ ret' = Call("searxng.parse_x_response",
                   parse_x_response(raw, probe.from_date, probe.to_date, now))
    /\ UNCHANGED << config, bird, ask, now, probe, raw >>
    /\ UNCHANGED hybridVars
    /\ UNCHANGED clientVars

CallParseWeb ==
    /\ ret' = Call("searxng.parse_web_response",
                   parse_web_response(raw, probe.from_date, probe.to_date,
                                      now))
    /\ UNCHANGED << config, bird, ask, now, probe, raw >>
    /\ UNCHANGED hybridVars
    /\ UNCHANGED clientVars

CallOpenAIParseReddit ==
    /\ ret' = Call("openai_reddit.parse_reddit_response",
                   openai_parse_reddit_response(raw))
    /\ UNCHANGED << config, bird, ask, now, probe, raw >>
    /\ UNCHANGED hybridVars
    /\ UNCHANGED clientVars

CallOpenRouterParseReddit ==
    /\ ret' = Call("openrouter_reddit.parse_reddit_response",
                   openrouter_parse_reddit_response(raw))
    /\ UNCHANGED << config, bird, ask, now, probe, raw >>
    /\ UNCHANGED hybridVars
    /\ UNCHANGED clientVars

ItemNext ==
    \/ CallExtractDateFromUrl
    \/ \E key \in {"content", "title"} : CallExtractDateFromText(key)
    \/ CallExtractDateSignals
    \/ CallApplyDateDetection
    \/ CallSearxngParseReddit
    \/ CallParseX
    \/ CallParseWeb
    \/ CallOpenAIParseReddit
    \/ CallOpenRouterParseReddit

ItemSpec == ItemInit /\ [][ItemNext]_vars

(***************************************************************************)
(* Properties.                                                             *)
(***************************************************************************)

\* C1, as stated: whenever the call has read any number of notification
\* envelopes followed by an envelope carrying 'result', it has returned
\* exactly that envelope's result; while it has read notifications only, no
\* envelope has been taken as the answer.
C1_NotificationsThenResult ==
    /\ seen \in {"response", "notifs_response"} =>
         /\ pc = "ready"
         /\ "result" \in DOMAIN response
         /\ outcome = Returned(response.result)
    /\ seen = "notifs" => answer = NoResponse /\ outcome.kind # "return"

\* C1, amended: the same for an envelope carrying 'result' and no 'error'.
C1_NotificationsThenSuccess ==
    /\ (seen \in {"response", "notifs_response"} /\ "error" \notin DOMAIN response) =>
         /\ pc = "ready"
         /\ "result" \in DOMAIN response
         /\ outcome = Returned(response.result)
    /\ seen = "notifs" => answer = NoResponse /\ outcome.kind # "return"

C1_Witness ==
    /\ seen = "notifs_response"
    /\ "error" \notin DOMAIN response
    /\ outcome = Returned("r2")

\* C2: a call that has read no line and no end-of-file from the inbound stream
\* eventually either reads one or fails with the timeout error, and the
\* timeout error is raised only once at least the timeout has elapsed.
C2_SilentStreamTimesOut ==
    /\ [](outcome = Raised("Timeout") => elapsed >= timeout)
    /\ []((pc = "read" /\ seen = "none") =>
            <>(seen # "none" \/ (pc = "ready" /\ outcome = Raised("Timeout"))))

\* C3: when search_all_hybrid has returned and future.result raised one
\* category's exception and returned the other two categories' values, the
\* mapping holds ([], "error") for the failing category and, for each of the
\* other two, exactly the pair its search function returned.
C3_FailureIsolated ==
    opc = "returned" =>
      \A c \in Sources :
        (how[c] = "exception" /\ \A d \in Sources \ {c} : how[d] = "return") =>
          /\ DOMAIN results = Sources
          /\ results[c] = ErrorPair
          /\ \A d \in Sources \ {c} :
               /\ futures[d].state = "done"
               /\ results[d] = futures[d].value
               /\ results[d] = SearchFn(d, use_claude_mcp, claude_env,
                                       mcp_importable)

C3_Witness ==
    /\ opc = "returned"
    /\ how = [c \in Sources |-> IF c = "x" THEN "exception" ELSE "return"]
    /\ results["reddit"].source = "claude_mcp"

\* C4: when search_all_hybrid has returned, the mapping has exactly the keys
\* 'reddit', 'x' and 'web', each mapped to an (items, source) pair, whatever
\* the outcome of each category.
C4_AllKeysPresent ==
    opc = "returned" =>
      /\ DOMAIN results = Sources
      /\ \A c \in Sources : DOMAIN results[c] = {"items", "source"}

C4_Witness ==
    /\ opc = "returned"
    /\ how["reddit"] = "timeout"
    /\ how["x"] = "exception"
    /\ how["web"] = "return"

\* C5: once the wait for some category has expired, search_all_hybrid
\* returns, whether or not the unfinished worker ever completes.
C5_ReturnsWithoutUnfinishedWorker ==
    (\E c \in Sources : how[c] = "timeout") ~> (opc = "returned")

\* C6, as stated: every parsed envelope that contains 'result' or 'error' has
\* ended the read loop and is the answer of the call, whatever its id.
C6_AnswerWhateverId ==
    (response # NoResponse
       /\ ("result" \in DOMAIN response \/ "error" \in DOMAIN response)) =>
      /\ pc = "ready"
      /\ answer = response
      /\ outcome.kind \in {"return", "raise"}

\* C6, amended: every parsed envelope that contains 'result', or 'error' and
\* no 'method', has ended the read loop and is the answer of the call,
\* whatever its id.
C6_AnswerUnlessNotification ==
    (response # NoResponse
       /\ \/ "result" \in DOMAIN response
          \/ ("error" \in DOMAIN response /\ "method" \notin DOMAIN response)) =>
      /\ pc = "ready"
      /\ answer = response
      /\ outcome.kind \in {"return", "raise"}

C6_Witness ==
    /\ pc = "ready"
    /\ request_id = 2
    /\ "id" \in DOMAIN answer
    /\ answer.id = 1
    /\ outcome = Returned("r1")

\* C7: after a call that failed by timeout the client holds the process
\* handle it held when the call started, and the call has neither closed the
\* subprocess's stdin nor sent it a kill.
C7_TimeoutLeavesProcess ==
    outcome = Raised("Timeout") =>
      /\ process = at_call[1]
      /\ stdin_closed = at_call[2]
      /\ killed = at_call[3]

C7_Witness ==
    /\ outcome = Raised("Timeout")
    /\ process = "Popen"
    /\ proc_state = "running"
    /\ ~stdin_closed
    /\ ~killed
    /\ pc = "ready"
    /\ request_id < MaxCalls

\* C8: the ids put into the request envelopes of one client are 1, 2, 3, ...
\* in this order, also when calls fail; none is used twice.
C8_IdsStrictlyIncreasing ==
    /\ Len(sent) > 0 => sent[1] = 1
    /\ \A i, j \in 1..Len(sent) : i < j => sent[i] < sent[j]

C8_Witness ==
    /\ Len(sent) = MaxCalls
    /\ outcome = Raised("SendFailed")

\* C9: the step in which readline() returns end-of-file ends the call with
\* the process-exited error carrying the subprocess's stderr if the client
\* holds a subprocess that has exited, and with the unexpected-EOF error
\* otherwise; it returns no result.
C9_EofFails ==
    [][(seen' = "eof" /\ pc = "read") =>
         /\ pc' = "ready"
         /\ outcome'.kind = "raise"
         /\ answer' = NoResponse
         /\ outcome' = IF process = "Popen" /\ proc_state = "exited"
                       THEN [kind |-> "raise", error |-> "ProcessExited",
                             stderr |-> proc_stderr]
                       ELSE [kind |-> "raise", error |-> "UnexpectedEOF"]]_vars

C9_Witness ==
    /\ seen = "eof"
    /\ outcome = [kind |-> "raise", error |-> "ProcessExited", stderr |-> "boom"]

\* C10: if the envelope accepted as the answer has an 'error' member, the
\* call has failed with the protocol error carrying that member's message
\* and code (the defaults of error.get where the member has none), whether
\* or not the envelope also has a 'result' member.
C10_ErrorMemberWins ==
    (answer # NoResponse /\ "error" \in DOMAIN answer) =>
      /\ pc = "ready"
      /\ outcome.kind = "raise"
      /\ outcome.error = "MCPError"
      /\ outcome.message = (IF "message" \in DOMAIN answer.error
                            THEN answer.error.message ELSE "Unknown error")
      /\ outcome.code = (IF "code" \in DOMAIN answer.error
                         THEN answer.error.code ELSE "Unknown")

C10_Witness ==
    /\ answer # NoResponse
    /\ "error" \in DOMAIN answer
    /\ "result" \in DOMAIN answer
    /\ outcome = MCPError("Method not found", "-32601")
\* C11: close() never raises, and a close() that finds no subprocess handle,
\* which is every close() after the one that closed the subprocess and every
\* close() of a client that never spawned one, leaves the client's fields and
\* the subprocess as they were.
C11_CloseIdempotent ==
    /\ [](close_status # "raised")
    /\ [][(pc = "ready" /\ pc' = "ready" /\ process = "None"
            /\ close_status' # close_status)
           => /\ close_status' = "noop"
              /\ UNCHANGED << timeout, request_id, process, proc_state,
                              stdin_closed, killed >>]_vars
    /\ [][(pc = "ready" /\ pc' = "ready" /\ close_status' = "noop")
           => UNCHANGED << timeout, request_id, process, stdin_closed,
                           killed >>]_vars

\* a subprocess that had exited was closed, its stdin close being allowed to
\* fail, and close() was called again afterwards
C11_Witness ==
    /\ close_status = "noop"
    /\ stdin_closed
    /\ proc_state = "exited"
    /\ ~killed
    /\ process = "None"

\* C12: close() on a spawned subprocess closes its stdin before anything
\* else, sends a kill only in the wait step that follows and only if the
\* subprocess has not exited by then, and drops the handle only when stdin
\* is closed and the subprocess has exited or has been sent a kill; so
\* when close() has returned the client has no handle and the subprocess has
\* exited or been killed.
C12_CloseOrder ==
    /\ [](close_status = "closing" => stdin_closed /\ process = "Popen")
    /\ [](close_status = "closed" =>
             /\ process = "None"
             /\ stdin_closed
             /\ (proc_state = "exited" \/ killed))
    /\ [][(killed' /\ ~killed) =>
             /\ close_status = "closing"
             /\ stdin_closed
             /\ proc_state = "running"]_vars
    /\ [][(stdin_closed' /\ ~stdin_closed) =>
             /\ process' = "Popen"
             /\ killed' = killed]_vars
    /\ [][(process = "Popen" /\ process' = "None") =>
             /\ stdin_closed
             /\ (proc_state = "exited" \/ killed')]_vars

\* a close() that found the subprocess still running at the end of the wait
C12_Witness ==
    /\ close_status = "closed"
    /\ killed
    /\ proc_state = "running"

\* C13: should_use_claude_mcp returns true only inside the Claude host
\* environment with a non-empty detected tool list, and never for
\* USE_CLAUDE_MCP = 'false'; each of the three search functions returns no
\* items, with the tag 'claude_mcp' exactly when should_use_claude_mcp holds
\* and the wrapper was obtained and reports itself available, and with the
\* tag 'none' otherwise.
C13_McpOnlyWhenCapable ==
    LET capable == /\ claude_env
                   /\ detect_mcp_tools(claude_env) # << >>
                   /\ use_claude_mcp \notin {"false", "False"}
    IN
    /\ (ret.fn = "should_use_claude_mcp" /\ ret.value) => capable
    /\ ret.fn \in {"search_reddit_hybrid", "search_x_hybrid",
                    "search_web_hybrid"} =>
         /\ ret.value.items = << >>
         /\ ret.value.source =
              IF capable /\ mcp_importable THEN "claude_mcp" ELSE "none"

C13_Witness ==
    /\ ret.fn = "search_x_hybrid"
    /\ ret.value.source = "claude_mcp"
    /\ use_claude_mcp = "TRUE"

\* C18, as stated: when obtaining the client or probing it raised inside a
\* search function, the function returned ([], "error").
C18_ProbeFailureTaggedError ==
    (/\ ret.fn \in {"search_reddit_hybrid", "search_x_hybrid",
                     "search_web_hybrid"}
     /\ claude_env
     /\ use_claude_mcp \notin {"false", "False"}
     /\ ~mcp_importable)
    => ret.value = Pair(<< >>, "error")

\* C14, as stated: the effective sources validate_sources returned contain
\* the reddit category only if available is 'reddit' or 'both', and the x
\* category only if available is 'x' or 'both'.
C14_NeverWidens ==
    ret.fn = "validate_sources" =>
      LET effective == ret.value[1] IN
      /\ "reddit" \in Categories(effective) =>
           ask.available \in {"reddit", "both"}
      /\ "x" \in Categories(effective) => ask.available \in {"x", "both"}

\* C15: validate_sources returned a reason exactly when a category the
\* caller asked for by name (reddit, x, or both of them) is not among the
\* effective sources; asking for both with one available, or for one with
\* only the other available, gave 'none' and a reason; 'auto' and 'web' gave
\* no reason.
C15_ReasonIffRequestedMissing ==
    ret.fn = "validate_sources" =>
      LET effective == ret.value[1]
          reason == ret.value[2]
          asked == CASE ask.requested = "reddit" -> {"reddit"}
                     [] ask.requested = "x" -> {"x"}
                     [] ask.requested \in {"both", "all"} -> {"reddit", "x"}
                     [] OTHER -> {}
      IN
      /\ reason # ""
      /\ (reason # "None") <=> (asked \ Categories(effective) # {})
      /\ (ask.requested = "both" /\ ask.available \in {"reddit", "x"}) =>
           (effective = "none" /\ reason # "None")
      /\ (ask.requested = "reddit" /\ ask.available = "x") =>
           (effective = "none" /\ reason # "None")
      /\ (ask.requested = "x" /\ ask.available = "reddit") =>
           (effective = "none" /\ reason # "None")
      /\ ask.requested \in {"auto", "web"} => reason = "None"

C15_Witness ==
    /\ ret.fn = "validate_sources"
    /\ ask.requested = "reddit"
    /\ ask.available = "x"
    /\ ret.value[1] = "none"
    /\ ret.value[2] # "None"

\* C16: get_reddit_provider returned 'openrouter' when an OpenRouter key is
\* configured, 'openai' when only an OpenAI key is, None when neither is,
\* and get_reddit_provider_status reported that same source.
C16_RedditProviderPriority ==
    LET expected == IF config.OPENROUTER_API_KEY = "sk" THEN "openrouter"
                    ELSE IF config.OPENAI_API_KEY = "sk" THEN "openai"
                    ELSE "None"
    IN
    /\ ret.fn = "get_reddit_provider" => ret.value = expected
    /\ ret.fn = "get_reddit_provider_status" => ret.value.source = expected

C16_Witness ==
    /\ ret.fn = "get_reddit_provider"
    /\ config.OPENROUTER_API_KEY = "sk"
    /\ config.OPENAI_API_KEY = "sk"
    /\ ret.value = "openrouter"

\* C17: get_x_source returned 'bird' when Bird is installed and "bird
\* whoami" succeeded with a username, 'xai' when that is not so and an xAI
\* key is configured, None otherwise, and get_x_source_status reported that
\* same source.
C17_XSourcePriority ==
    LET authenticated == /\ bird.installed
                         /\ bird.whoami.exc = "none"
                         /\ bird.whoami.returncode = 0
                         /\ bird.whoami.stdout = "alice\n"
        expected == IF authenticated THEN "bird"
                    ELSE IF config.XAI_API_KEY = "sk" THEN "xai"
                    ELSE "None"
    IN
    /\ ret.fn = "get_x_source" => ret.value = expected
    /\ ret.fn = "get_x_source_status" => ret.value.source = expected

C17_Witness ==
    /\ ret.fn = "get_x_source_status"
    /\ ret.value.source = "bird"
    /\ config.XAI_API_KEY = "sk"

\* C19, as stated: with parseable bounds from_date <= to_date, a candidate
\* given as YYYY-MM-DD, 'today' or 'yesterday' whose calendar day is that of
\* from_date or of to_date was found in range, and one whose calendar day is
\* the day before from_date or the day after to_date was found out of range,
\* whatever the time of day.
C19_InclusiveOnCalendarDates ==
    (/\ ret.fn = "is_date_in_range"
     /\ probe.from_date \in IsoDates
     /\ probe.to_date \in IsoDates
     /\ probe.date_str \in IsoDates \cup {"today", "yesterday"})
    =>
    LET dayOf(str) == (CHOOSE e \in DateTable : e[1] = str)[2]
        first == dayOf(probe.from_date)
        last == dayOf(probe.to_date)
        cal == IF probe.date_str = "today" THEN now.day
               ELSE IF probe.date_str = "yesterday" THEN now.day - 1
               ELSE dayOf(probe.date_str)
    IN first <= last =>
         /\ cal \in {first, last} => ret.value = TRUE
         /\ cal \in {first - 1, last + 1} => ret.value = FALSE

\* C20: a candidate that is empty, None, 'none', or a string that is neither
\* 'today'/'yesterday' nor a date strptime accepts, was found in range, for
\* every window.
C20_FailsOpen ==
    (/\ ret.fn = "is_date_in_range"
     /\ probe.date_str \in {"", "None", "none", "2026-02-30", "Jan 30, 2026",
                             "Today"})
    => ret.value = TRUE

\* an unparseable candidate against a window it would fall outside of
C20_Witness ==
    /\ ret.fn = "is_date_in_range"
    /\ probe.date_str = "2026-02-30"
    /\ probe.from_date = "2026-01-30"
    /\ probe.to_date = "2026-01-31"
    /\ ret.value = TRUE

\* C30, as stated: get_missing_keys returned 'none' exactly when
\* get_available_sources gives 'both' for the same keys, and
\* get_available_sources returned 'x' or 'both' exactly when get_x_source
\* gives a source for the same keys and Bird state.
C30_AvailabilityAgrees ==
    /\ ret.fn = "get_missing_keys" =>
         (ret.value = "none" <=> get_available_sources(config) = "both")
    /\ ret.fn = "get_available_sources" =>
         (ret.value \in {"x", "both"} <=> get_x_source(config, bird) # "None")

\* C27, as stated: when the lines the call has read are complete non-answer
\* envelopes (notifications or envelopes with none of 'method', 'result',
\* 'error', each on one line or split over two) followed by the two lines of
\* a split response, the call has returned that response's result.
C27_SplitResponseAccepted ==
    stream.st = "split_response" =>
      /\ pc = "ready"
      /\ outcome = Returned(stream.env.result)

\* C29, as stated: no call ends with the invalid-response error, and a call
\* that has ended otherwise than by the timeout, by end-of-file or by a
\* failure to write or read left the loop with an envelope carrying 'result'
\* or 'error' and ended by returning the result or by raising the protocol
\* error.
C29_NoInvalidResponse ==
    /\ outcome # Raised("InvalidResponse")
    /\ (/\ pc = "ready"
        /\ outcome # NoOutcome
        /\ ~(/\ outcome.kind = "raise"
              /\ outcome.error \in {"Timeout", "UnexpectedEOF", "ProcessExited",
                                     "SendFailed"})) =>
         /\ "result" \in DOMAIN answer \/ "error" \in DOMAIN answer
         /\ IF outcome.kind = "return"
            THEN "result" \in DOMAIN answer /\ outcome.value = answer.result
            ELSE outcome.error = "MCPError"

\* C28: the results mapping changes only in a step of the orchestrating
\* thread's loop, never in a worker's step; such a step adds the entry of the
\* category the loop is at, which had none, and leaves every other entry as
\* it was; it is taken only when that category's worker has finished or the
\* wait for it has expired; and on return every category has its entry.
C28_ResultsWrittenOnce ==
    /\ [][results' # results =>
            /\ opc = "collect"
            /\ futures' = futures
            /\ LET c == Order[collected + 1] IN
               /\ c \notin DOMAIN results
               /\ DOMAIN results' = DOMAIN results \cup {c}
               /\ \A d \in DOMAIN results : results'[d] = results[d]
               /\ \/ futures[c].state \in {"done", "failed"}
                  \/ how'[c] = "timeout"]_vars
    /\ [][futures' # futures => results' = results]_vars
    /\ [](opc = "returned" => DOMAIN results = Sources)

\* a worker that finished after the wait for it had expired: its entry is
\* still the error pair
C28_Witness ==
    /\ opc = "returned"
    /\ how["reddit"] = "timeout"
    /\ futures["reddit"].state = "done"
    /\ results["reddit"] = ErrorPair
    /\ results["web"].source = "claude_mcp"

\* C21: extract_date_signals applies a fixed precedence.  A URL holding one
\* of the date patterns gives (URL date, 'high') whatever the snippet and the
\* title hold; otherwise a snippet that yields a date gives (snippet date,
\* 'med') whatever the title holds; otherwise a title that yields a date
\* gives (title date, 'low'); otherwise the result is (None, 'none').
C21_FixedPrecedence ==
    ret.fn = "extract_date_signals" =>
        LET inUrl == UrlRow(Get(First, "url", "")).date
            inSnippet == extract_date_from_text(Get(First, "content", ""), now)
            inTitle == extract_date_from_text(Get(First, "title", ""), now)
        IN
        /\ inUrl # "None" => ret.value = << inUrl, "high" >>
        /\ inUrl = "None" /\ inSnippet # "None" =>
               ret.value = << inSnippet, "med" >>
        /\ inUrl = "None" /\ inSnippet = "None" /\ inTitle # "None" =>
               ret.value = << inTitle, "low" >>
        /\ inUrl = "None" /\ inSnippet = "None" /\ inTitle = "None" =>
               ret.value = << "None", "none" >>

\* a URL dated 2026-01-31 with a snippet dated 2026-02-01 and a title dated
\* 2026-02-02: the URL date was returned with confidence 'high'
C21_Witness ==
    /\ ret.fn = "extract_date_signals"
    /\ Get(First, "url", "") = "https://example.com/2026/01/31/post"
    /\ Get(First, "content", "") = "1 February 2026"
    /\ Get(First, "title", "") = "on 2026/02/02"
    /\ ret.value = << "2026-01-31", "high" >>

\* C25: every date that extract_date_signals returns is absent or a calendar
\* date of the form YYYY-MM-DD; text holding the word 'today' yields the
\* current date in that form and text holding 'yesterday' the date of the
\* day before, never the relative word.
C25_DatesAreCalendarDates ==
    LET calendar == IsoDates \cap ShapeMatches IN
    /\ ret.fn = "extract_date_signals" =>
           ret.value[1] \in calendar \cup {"None"}
    /\ ret.fn = "extract_date_from_text" /\ ret.text # "" =>
           /\ TextRow(ret.text).today => ret.value = strftime(now)
           /\ TextRow(ret.text).yesterday =>
                  ret.value = strftime(MinusDays(now, 1))

\* C22: on every item that carries a date_confidence, from
\* extract_date_signals, from apply_date_detection or from the searxng
\* adapters parse_reddit_response, parse_x_response and parse_web_response,
\* the confidence is 'none' exactly when the date is absent.
C22_NoneIffAbsent ==
    /\ ret.fn = "extract_date_signals" =>
           (ret.value[2] = "none" <=> ret.value[1] = "None")
    /\ ret.fn \in {"apply_date_detection", "searxng.parse_reddit_response",
                    "searxng.parse_x_response", "searxng.parse_web_response"} =>
           \A i \in 1..Len(ret.value) :
               ret.value[i].date_confidence = "none"
                   <=> ret.value[i].date = "None"

\* parse_web_response returned two items, one without a date and with
\* confidence 'none', the other with a date and another confidence
C22_Witness ==
    /\ ret.fn = "searxng.parse_web_response"
    /\ Len(ret.value) = 2
    /\ \E i, j \in 1..2 :
          /\ ret.value[i].date = "None"
          /\ ret.value[i].date_confidence = "none"
          /\ ret.value[j].date # "None"
          /\ ret.value[j].date_confidence # "none"

\* C23: every item that an adapter produces (the parse_reddit_response of
\* openai_reddit and of openrouter_reddit, and parse_reddit_response,
\* parse_x_response and parse_web_response of searxng) has a relevance
\* between 0.0 and 1.0, whatever score the provider supplied.
C23_RelevanceInUnitInterval ==
    ret.fn \in {"openai_reddit.parse_reddit_response",
                "openrouter_reddit.parse_reddit_response",
                "searxng.parse_reddit_response", "searxng.parse_x_response",
                "searxng.parse_web_response"} =>
        \A i \in 1..Len(ret.value) :
            ret.value[i].relevance >= 0 /\ ret.value[i].relevance <= 100

\* C24: in every adapter a provider date that is not exactly of the shape
\* YYYY-MM-DD is discarded: the item's date is then absent or the one the
\* date extractor found, never the raw provider string.
C24_MalformedProviderDateDiscarded ==
    LET shaped == { d \in ShapeMatches : d # "2026-01-31\n" }
        given(r) == IF "date" \in DOMAIN r THEN r.date
                    ELSE PyOr(Get(r, "publication_date", "None"),
                              Get(r, "publish_date", "None"))
        malformed == { given(ListOf(raw)[k]) : k \in 1..Len(ListOf(raw)) }
                         \ (shaped \cup {"None", ""})
    IN
    ret.fn \in {"openai_reddit.parse_reddit_response",
                "openrouter_reddit.parse_reddit_response",
                "searxng.parse_reddit_response", "searxng.parse_x_response",
                "searxng.parse_web_response"} =>
        \A i \in 1..Len(ret.value) : ret.value[i].date \notin malformed

\* C26: for any response and any parseable window, every item that the
\* searxng adapters and apply_date_detection return has a date that is
\* absent, unparseable or within [from_date, to_date] inclusive, and no item
\* whose date lies inside the window is dropped by the date filter: the
\* items returned are exactly the results that pass the other filters and
\* whose date is absent, unparseable or inside the window.
C26_WindowFilterExact ==
    LET dayOf(d) == IF d = "today" THEN now.day
                    ELSE IF d = "yesterday" THEN now.day - 1
                    ELSE strptime(d).day
        admitted(d) ==
            \/ d \in {"None", ""}
            \/ ~(Parses(d) \/ d \in {"today", "yesterday"})
            \/ /\ strptime(probe.from_date).day <= dayOf(d)
               /\ dayOf(d) <= strptime(probe.to_date).day
        list == ListOf(raw)
        others(r) ==
            LET u == UrlRow(Get(r, "url", "")) IN
            CASE ret.fn = "searxng.parse_reddit_response" ->
                     u.reddit /\ ~u.excluded /\ u.subreddit # ""
              [] ret.fn = "searxng.parse_x_response" -> u.x
              [] OTHER -> TRUE
        dateOf(r) == IF ret.fn = "apply_date_detection"
                     THEN DetectedOf(r, now)[1]
                     ELSE SearxDate(r, now)[1]
        due == { k \in 1..Len(list) :
                   others(list[k]) /\ admitted(dateOf(list[k])) }
    IN
    /\ ret.fn \in {"searxng.parse_reddit_response",
                    "searxng.parse_x_response", "searxng.parse_web_response"}
       /\ "results" \in DOMAIN raw
       =>
           /\ \A i \in 1..Len(ret.value) : admitted(ret.value[i].date)
           /\ Len(ret.value) = Cardinality(due)
    /\ ret.fn = "apply_date_detection" =>
           /\ \A i \in 1..Len(ret.value) : admitted(ret.value[i].date)
           /\ Len(ret.value) = Cardinality(due)

====
